---- MODULE Spec2Model ----
(***************************************************************************)
(* Model of the query pipeline of node_tester_cli (src/core/api.rs,        *)
(* module cascade_api, with the argument struct of src/core/cliv2.rs).     *)
(*                                                                         *)
(* One process invocation runs one command: initialise_cli, run or         *)
(* test_cli_node.  The persisted Config outlives the invocation; the rest  *)
(* of the state belongs to the invocation and is cleared when the process  *)
(* exits.  The awaits on the network are the suspension points: a request  *)
(* is issued by one step and its outcome is consumed by the next.          *)
(*                                                                         *)
(* Strings the code inspects or builds character by character (node URLs,  *)
(* addresses, hex encodings) are sequences of one-character strings.       *)
(***************************************************************************)
EXTENDS Integers, Sequences, FiniteSets, TLC

VARIABLES
    configFile,   \* the persisted Config, or NoFile before the first save
    pc,           \* position of the running invocation
    cmd,          \* command of the running invocation
    args,         \* its parsed arguments (CliArgs or InitArgs)
    node,         \* local `node` of run / test_cli_node
    web3s,        \* local `web3s`: the Web3 instance and its transport
    header,       \* local `header` of run_with_query_http
    rpcCalls,     \* requests handed to the transport, in order
    outcomes,     \* what each of them returned, in order
    reportLog,    \* calls made on Report, in order
    log           \* error!, info! and print! output, in order

vars == <<configFile, pc, cmd, args, node, web3s, header, rpcCalls, outcomes,
          reportLog, log>>

----------------------------------------------------------------------------
(* Bounds *)

MaxBlock == 2
MaxLogs == 1

----------------------------------------------------------------------------
(* Strings *)

Empty == <<>>

S_0x == <<"0", "x">>

HttpScheme == <<"h", "t", "t", "p", ":", "/", "/">>
WsScheme == <<"w", "s", ":", "/", "/">>
WssScheme == <<"w", "s", "s", ":", "/", "/">>

StartsWith(s, p) == Len(s) >= Len(p) /\ SubSeq(s, 1, Len(p)) = p

\* cliv2.rs: the clap default_value of each CliArgs field
DefaultAddress == <<"0", "x", "0">>
DefaultFrom == 0
DefaultTo == 1000
DefaultMethod == "logs"
DefaultNode == HttpScheme \o <<"l", "o", "c", "a", "l", "h", "o", "s", "t", ":", "8", "5", "4", "5">>
DefaultTimeout == 1000

Addresses == {DefaultAddress, <<"a", "b", "c", "1", "2", "3">>}
Blocks == (0 .. MaxBlock) \cup {10, 255, DefaultFrom, DefaultTo}
Methods == {DefaultMethod, "eth_getLogs", "eth_blockNumber"}
CliNodes == {DefaultNode, HttpScheme \o <<"b">>, WsScheme \o <<"b">>}
InitNodes == {Empty, HttpScheme \o <<"a">>, WsScheme \o <<"a">>, WssScheme \o <<"a">>}

CliArgs ==
    [address : Addresses, from : Blocks, to : Blocks, method : Methods,
     node : CliNodes, timeout : {DefaultTimeout}]

InitArgs == [node : InitNodes]

NoArgs == [none |-> TRUE]

----------------------------------------------------------------------------
(* JSON values and the encodings applied to the arguments *)

JNum(n) == [t |-> "number", v |-> n]
JStr(s) == [t |-> "string", v |-> s]

HexDigit(d) ==
    <<"0", "1", "2", "3", "4", "5", "6", "7", "8", "9",
      "a", "b", "c", "d", "e", "f">>[d + 1]

RECURSIVE LowerHex(_)
LowerHex(n) ==
    IF n < 16 THEN <<HexDigit(n)>>
    ELSE LowerHex(n \div 16) \o <<HexDigit(n % 16)>>

\* BlockNumber::Number(n) serialises as the string format!("0x{:x}", n)
BlockNumber(n) == JStr(S_0x \o LowerHex(n))

\* FilterBuilder::default().from_block(..).to_block(..).build(): no address
\* is set, and an unset field is left out of the serialised filter
FilterBuilder(a) ==
    [fromBlock |-> BlockNumber(a.from), toBlock |-> BlockNumber(a.to)]

\* params_serde of run_with_query_http
params_serde(a) ==
    <<[fromBlock |-> JNum(a.from),
       toBlock |-> JNum(a.to),
       address |-> JStr(S_0x \o a.address)]>>

LogsRequest(a) ==
    [op |-> "eth_getLogs", method |-> "eth_getLogs", params |-> <<FilterBuilder(a)>>]

ExecuteRequest(a) ==
    [op |-> "execute", method |-> a.method, params |-> params_serde(a)]

----------------------------------------------------------------------------
(* Config store *)

NoFile == [missing |-> TRUE]

Config_new == [node_address |-> Empty]

Config_load(file) == IF file = NoFile THEN Config_new ELSE file

Config_save(config) == config

----------------------------------------------------------------------------
(* Transport and report *)

NoTransport == [kind |-> "none"]

\* web3s is passed on as &Web3<Http>: the transport is Http for every node
http_web3(url) == [kind |-> "Http", url |-> url]

\* the check for an uninitialised node left out
is_empty_never(s) == FALSE

is_empty(s) == Len(s) = 0

NoHeader == [none |-> TRUE]

ReportHeader(a) == [node |-> "node", args |-> a]

ReportData ==
    [success |-> TRUE, error |-> "None", duration |-> 0, result |-> "Success"]

\* the report built and displayed in the Err arm as well
ReportCalls_both_arms(h, outcome) ==
    <<[call |-> "new", header |-> h],
      [call |-> "add_data", data |-> ReportData],
      [call |-> "display"]>>

\* the arm of `match get_logs` taken for an outcome of execute
ReportCalls(h, outcome) ==
    IF outcome.ok
    THEN <<[call |-> "new", header |-> h],
           [call |-> "add_data", data |-> ReportData],
           [call |-> "display"]>>
    ELSE <<>>

ErrorCalls(outcome) ==
    IF outcome.ok THEN <<>>
    ELSE <<[level |-> "error", msg |-> "Error", detail |-> outcome.err]>>

NotInitialized ==
    [level |-> "error",
     msg |-> "Node address not initialized. Use 'init' command to set the node."]

ExecuteOutcomes ==
    {[ok |-> TRUE, err |-> "none"],
     [ok |-> FALSE, err |-> "transport"],
     [ok |-> FALSE, err |-> "remote"]}

LogsOutcomes ==
    {[ok |-> TRUE, err |-> "none", len |-> n] : n \in 0 .. MaxLogs}
        \cup {[ok |-> FALSE, err |-> "transport", len |-> 0],
              [ok |-> FALSE, err |-> "remote", len |-> 0]}

----------------------------------------------------------------------------
(* The invocation *)

Init ==
    /\ configFile = NoFile
    /\ pc = "idle"
    /\ cmd = "none"
    /\ args = NoArgs
    /\ node = Empty
    /\ web3s = NoTransport
    /\ header = NoHeader
    /\ rpcCalls = <<>>
    /\ outcomes = <<>>
    /\ reportLog = <<>>
    /\ log = <<>>

\* the assignment of args.node left out: Config::new() is saved as it is
init_config_unset(a) == Config_new

\* config.node_address = args.node.clone()
init_config(a) == [Config_new EXCEPT !.node_address = a.node]

initialise_cli(a) ==
    /\ pc = "idle"
    /\ configFile' = Config_save(init_config(a))
    /\ pc' = "done"
    /\ cmd' = "init"
    /\ args' = a
    /\ UNCHANGED <<node, web3s, header, rpcCalls, outcomes, reportLog, log>>

\* run_with_query_http up to its await: header, print!, params, execute
run_with_query_http_begin(a) ==
    /\ header' = ReportHeader(a)
    /\ log' = Append(log, [level |-> "print", msg |-> "Running with query parameters"])
    /\ rpcCalls' = Append(rpcCalls, ExecuteRequest(a))
    /\ pc' = "execute"

\* run_default_test up to its await: the filter and eth().logs(..)
run_default_test_begin(a) ==
    /\ rpcCalls' = Append(rpcCalls, LogsRequest(a))
    /\ pc' = "logs"
    /\ UNCHANGED <<header, log>>

abort ==
    /\ log' = Append(log, NotInitialized)
    /\ pc' = "aborted"
    /\ UNCHANGED <<web3s, header, rpcCalls>>

test_cli_node(a) ==
    /\ pc = "idle"
    /\ cmd' = "test_cli_node"
    /\ args' = a
    /\ node' = Config_load(configFile).node_address
    /\ IF is_empty(node')
       THEN abort
       ELSE /\ web3s' = http_web3(node')
            /\ run_default_test_begin(a)
    /\ UNCHANGED <<configFile, outcomes, reportLog>>

run(a) ==
    /\ pc = "idle"
    /\ cmd' = "run"
    /\ args' = a
    /\ node' = Config_load(configFile).node_address
    /\ IF is_empty(node')
       THEN abort
       ELSE /\ web3s' = http_web3(node')
            /\ run_with_query_http_begin(a)
    /\ UNCHANGED <<configFile, outcomes, reportLog>>

\* run_default_test after its await: expect, then the branch on the method
run_default_test(outcome) ==
    /\ pc = "logs"
    /\ outcomes' = Append(outcomes, outcome)
    /\ IF ~outcome.ok
       THEN /\ pc' = "panicked"
            /\ log' = Append(log, [level |-> "panic", msg |-> "failed to fetch logs"])
            /\ UNCHANGED <<header, rpcCalls>>
       ELSE IF args.method = "logs"
       THEN /\ pc' = "done"
            /\ log' = Append(log, [level |-> "info", msg |-> "Logs length", len |-> outcome.len])
            /\ UNCHANGED <<header, rpcCalls>>
       ELSE run_with_query_http_begin(args)
    /\ UNCHANGED <<configFile, cmd, args, node, web3s, reportLog>>

\* run_with_query_http after its await: match get_logs
run_with_query_http(outcome) ==
    /\ pc = "execute"
    /\ outcomes' = Append(outcomes, outcome)
    /\ reportLog' = reportLog \o ReportCalls(header, outcome)
    /\ log' = log \o ErrorCalls(outcome)
    /\ pc' = "done"
    /\ UNCHANGED <<configFile, cmd, args, node, web3s, header, rpcCalls>>

\* the process ends; the next invocation starts from the persisted Config
exit ==
    /\ pc \in {"done", "aborted", "panicked"}
    /\ pc' = "idle"
    /\ cmd' = "none"
    /\ args' = NoArgs
    /\ node' = Empty
    /\ web3s' = NoTransport
    /\ header' = NoHeader
    /\ rpcCalls' = <<>>
    /\ outcomes' = <<>>
    /\ reportLog' = <<>>
    /\ log' = <<>>
    /\ UNCHANGED configFile

Next ==
    \/ \E a \in InitArgs : initialise_cli(a)
    \/ \E a \in CliArgs : test_cli_node(a)
    \/ \E a \in CliArgs : run(a)
    \/ \E o \in LogsOutcomes : run_default_test(o)
    \/ \E o \in ExecuteOutcomes : run_with_query_http(o)
    \/ exit

Spec == Init /\ [][Next]_vars

----------------------------------------------------------------------------
(* Properties *)

Query == cmd \in {"run", "test_cli_node"}

Persisted == Config_load(configFile).node_address

Calls(op) == {i \in DOMAIN rpcCalls : rpcCalls[i].op = op}

ReportCallsOf(call) == {i \in DOMAIN reportLog : reportLog[i].call = call}

\* the last request was a generic execute and it returned Ok
ExecuteReturnedOk ==
    /\ rpcCalls # <<>>
    /\ Len(outcomes) = Len(rpcCalls)
    /\ rpcCalls[Len(rpcCalls)].op = "execute"
    /\ outcomes[Len(outcomes)].ok

\* C1: a query (run or test_cli_node) that finds the persisted node_address
\* empty, with --node left at its default, ends aborted with the 'node not
\* initialized' error, having issued no RPC call (neither eth_getLogs nor
\* execute) and built no transport.
C1_AbortsBeforeAnyCall ==
    (Query /\ Persisted = Empty /\ args.node = DefaultNode) =>
        /\ pc = "aborted"
        /\ log = <<NotInitialized>>
        /\ rpcCalls = <<>>
        /\ outcomes = <<>>
        /\ web3s = NoTransport
        /\ reportLog = <<>>

C1_Witness ==
    /\ cmd = "run"
    /\ pc = "aborted"
    /\ args.node = DefaultNode
    /\ Persisted = Empty
    /\ rpcCalls = <<>>

\* C2: every query that has issued an RPC call and ended has produced and
\* displayed exactly one ReportRecord and has not panicked; when a call
\* failed, that record has success = false and an error.
C2_OneRecordPerDispatch ==
    (Query /\ rpcCalls # <<>> /\ pc \in {"done", "panicked"}) =>
        /\ pc # "panicked"
        /\ Cardinality(ReportCallsOf("add_data")) = 1
        /\ Cardinality(ReportCallsOf("display")) = 1
        /\ (\E i \in DOMAIN outcomes : ~outcomes[i].ok) =>
               \A j \in ReportCallsOf("add_data") :
                   /\ reportLog[j].data.success = FALSE
                   /\ reportLog[j].data.error # "None"

\* C3: a query issues at most one RPC call, and with a method other than
\* "logs" that call is the generic execute(method, params): no eth_getLogs
\* call is issued.
C3_AtMostOneCall ==
    Query =>
        /\ Len(rpcCalls) <= 1
        /\ (args.method # "logs" /\ rpcCalls # <<>>) =>
               /\ Calls("eth_getLogs") = {}
               /\ rpcCalls[1].op = "execute"
               /\ rpcCalls[1].method = args.method

\* C4: with method = "logs", the call a query issues is eth_getLogs and no
\* generic execute call is issued in that invocation.
C4_LogsIsTerminal ==
    (Query /\ args.method = "logs" /\ rpcCalls # <<>>) =>
        /\ rpcCalls[1].op = "eth_getLogs"
        /\ Calls("execute") = {}

\* C5: the transport is built for the --node override when one is supplied
\* and for the persisted node_address otherwise, and a supplied override
\* keeps the query from aborting.
C5_OverrideTakesPrecedence ==
    Query =>
        /\ web3s # NoTransport =>
               web3s.url = IF args.node # DefaultNode THEN args.node ELSE Persisted
        /\ args.node # DefaultNode => pc # "aborted"

\* C6: the transport built for a node URL is WebSocket when the URL begins
\* with ws:// or wss://, and Http otherwise.
C6_TransportFollowsScheme ==
    web3s # NoTransport =>
        web3s.kind =
            IF StartsWith(web3s.url, WsScheme) \/ StartsWith(web3s.url, WssScheme)
            THEN "Websocket"
            ELSE "Http"

\* C7: in the filter object of every request, the address field is left out
\* when the address argument is the default "0x0", and is "0x" followed by
\* the argument otherwise.
C7_AddressField ==
    \A i \in DOMAIN rpcCalls :
        LET filter == rpcCalls[i].params[1] IN
        IF args.address = DefaultAddress
        THEN "address" \notin DOMAIN filter
        ELSE /\ "address" \in DOMAIN filter
             /\ filter.address = JStr(S_0x \o args.address)

HexValue(c) == CHOOSE d \in 0 .. 15 : HexDigit(d) = c

RECURSIVE HexDecode(_)
HexDecode(s) ==
    IF s = <<>> THEN 0
    ELSE 16 * HexDecode(SubSeq(s, 1, Len(s) - 1)) + HexValue(s[Len(s)])

IsHexOf(j, n) ==
    /\ j.t = "string"
    /\ StartsWith(j.v, S_0x)
    /\ Len(j.v) > 2
    /\ HexDecode(SubSeq(j.v, 3, Len(j.v))) = n

\* C8: in every request, fromBlock and toBlock are 0x-prefixed hexadecimal
\* strings that decode to the from and to arguments.
C8_BlocksAreHex ==
    \A i \in DOMAIN rpcCalls :
        LET filter == rpcCalls[i].params[1] IN
        /\ IsHexOf(filter.fromBlock, args.from)
        /\ IsHexOf(filter.toBlock, args.to)

C10_ReportIffExecuteOk ==
    IF ExecuteReturnedOk
    THEN reportLog =
             <<[call |-> "new", header |-> [node |-> "node", args |-> args]],
               [call |-> "add_data",
                data |-> [success |-> TRUE, error |-> "None", duration |-> 0,
                          result |-> "Success"]],
               [call |-> "display"]>>
    ELSE reportLog = <<>>

C10_Witness ==
    /\ pc = "done"
    /\ ExecuteReturnedOk
    /\ Len(reportLog) = 3

====
